---- MODULE Spec2Model ----
(***************************************************************************)
(* A model of pycroscopy's KPFM Bayesian inference utilities               *)
(* (pycroscopy/analysis/kpfm_bayesian/kpfm_bayesian_utils.py):             *)
(*   _B_phin, _mmlenn, BayesianInference, processResults, process_pixel,   *)
(* and of Translator._buildpositiondatasets                                 *)
(* (pycroscopy/io/translators/translator.py).                              *)
(*                                                                         *)
(* Each Python function activation is a frame: a record whose fields are   *)
(* the function's local names, plus "pc", the statement it is at.          *)
(*                                                                         *)
(* Numbers.  Angles are counted in quarter turns (1 = pi/2), so that the   *)
(* sine of every angle of the model is one of -1, 0, 1 and its powers are  *)
(* computed exactly.  Floating-point values the model cannot compute       *)
(* (objective values, noise scales) are abstracted to classes, named where *)
(* they are introduced.                                                    *)
(***************************************************************************)
EXTENDS Integers, Sequences, FiniteSets, TLC

VARIABLES
    bphin,  \* the frame of a call to _B_phin
    mml,    \* the frame of a call to _mmlenn
    bi,     \* the frame of a call to BayesianInference
    px,     \* the frame of a call to process_pixel
    pr,     \* the frame of a call to processResults
    rng,    \* numpy's process-global RandomState (np.random.*)
    task,   \* the frames of BayesianInference calls run as parallel tasks
    tr      \* the frame of a call to Translator._buildpositiondatasets

vars == <<bphin, mml, bi, px, pr, rng, task, tr>>

\* A frame of a function that is not running.
Idle == [pc |-> "idle"]

\* The state of np.random's global generator: the seed it was last seeded
\* with (0: never seeded by the program, the interpreter's own entropy) and
\* pos, the number of values drawn from it since.
Unseeded == [seed |-> 0, pos |-> 0]

(***************************************************************************)
(* Bounds of the model.                                                    *)
(***************************************************************************)
\* Largest window length N (the number of samples of tt and y).
MaxN == 3
\* Largest polynomial order n (p["Bayes.Npoly"]).
MaxPoly == 2
\* Largest normalised drive frequency w, in quarter turns per time step.
MaxW == 3

(***************************************************************************)
(* numpy helpers used by _B_phin.                                          *)
(***************************************************************************)
\* np.sin of an angle given in quarter turns.
Sin(q) == CASE q % 4 = 0 -> 0
            [] q % 4 = 1 -> 1
            [] q % 4 = 2 -> 0
            [] q % 4 = 3 -> -1

\* x**i for an integer i >= 0, as numpy computes it (x**0 is 1, also for x = 0).
RECURSIVE Pow(_, _)
Pow(x, i) == IF i = 0 THEN 1 ELSE x * Pow(x, i - 1)

\* np.zeros((rows, cols)): a matrix is a function of its 0-based row index
\* to a function of its 0-based column index.
Zeros(rows, cols) == [r \in 0..(rows - 1) |-> [c \in 0..(cols - 1) |-> 0]]

\* The indices a slice start:stop:step (step > 0, start >= 0) selects in an
\* axis of length len, in order: start, start+step, ... below min(stop, len).
SliceStop(stop, len) == IF stop < len THEN stop ELSE len

SliceCount(start, stop, step, len) ==
    IF SliceStop(stop, len) <= start THEN 0
    ELSE ((SliceStop(stop, len) - start - 1) \div step) + 1

Slice(start, stop, step, len) ==
    [j \in 1..SliceCount(start, stop, step, len) |-> start + (j - 1) * step]

\* The position (1-based) of row r in the slice rows, 0 when r is not in it.
SlicePos(rows, r) ==
    IF \E j \in DOMAIN rows : rows[j] = r
    THEN CHOOSE j \in DOMAIN rows : rows[j] = r
    ELSE 0

\* np.arange(T, step=h) for T = N*h, in units of h: 0, 1, ..., N-1.
Arange(N) == [k \in 1..N |-> k - 1]

(***************************************************************************)
(* _B_phin(phi, w, tt, n)                                                  *)
(***************************************************************************)
\* np.squeeze(np.sin(w*tt + phi)**i): one value per sample of tt.
SinPowers(phi, w, tt, i) == [k \in 1..Len(tt) |-> Pow(Sin(w * tt[k] + phi), i)]

\* The rows that line 90 writes: the slice 1:2*N+1:2 of the 2N rows.
\* (Variant: the slice started at row 0, 0:2*N:2.)
BphinRowsEvenStart(N) == Slice(0, 2 * N, 2, 2 * N)

BphinRows(N) == Slice(1, 2 * N + 1, 2, 2 * N)

\* Bn[rows, i] = vals: column i of the rows of the slice is overwritten, the
\* k-th row of the slice with the k-th value.
AssignColumn(Bn, rows, i, vals) ==
    [r \in DOMAIN Bn |->
        IF SlicePos(rows, r) = 0 THEN Bn[r]
        ELSE [Bn[r] EXCEPT ![i] = vals[SlicePos(rows, r)]]]

\* One iteration of the loop at lines 89-90.
\* (Variant: the power **i left out.)
BphinIterationBaseOnly(Bn, phi, w, tt, i) ==
    AssignColumn(Bn, BphinRows(Len(tt)), i, SinPowers(phi, w, tt, 1))

BphinIteration(Bn, phi, w, tt, i) ==
    AssignColumn(Bn, BphinRows(Len(tt)), i, SinPowers(phi, w, tt, i))

\* Line 84-85: N = tt.size; Bn = np.zeros((2*N, n+1)).
BphinCall ==
    /\ bphin.pc = "call"
    /\ bphin' = [bphin EXCEPT !.pc = "loop",
                              !.N = Len(bphin.tt),
                              !.Bn = Zeros(2 * Len(bphin.tt), bphin.n + 1),
                              !.i = 0]
    /\ UNCHANGED <<mml, bi, px, pr, rng, task, tr>>

\* Lines 89-90: for i in range(n+1): Bn[1:2*N+1:2, i] = ...
BphinLoop ==
    /\ bphin.pc = "loop"
    /\ bphin.i <= bphin.n
    /\ bphin' = [bphin EXCEPT
                    !.Bn = BphinIteration(bphin.Bn, bphin.phi, bphin.w,
                                          bphin.tt, bphin.i),
                    !.i = bphin.i + 1]
    /\ UNCHANGED <<mml, bi, px, pr, rng, task, tr>>

\* Line 92: return Bn.
BphinReturn ==
    /\ bphin.pc = "loop"
    /\ bphin.i > bphin.n
    /\ bphin' = [bphin EXCEPT !.pc = "returned"]
    /\ UNCHANGED <<mml, bi, px, pr, rng, task, tr>>

\* The calls of _B_phin: phi in [-pi, pi] in quarter turns, w, a time vector
\* tt = arange of N >= 1 samples, a polynomial order n >= 0.
BphinInputs ==
    { [pc |-> "call", phi |-> phi, w |-> w, tt |-> Arange(N), n |-> n,
       N |-> 0, Bn |-> <<>>, i |-> 0] :
        phi \in -2..2, w \in 0..MaxW, N \in 1..MaxN, n \in 0..MaxPoly }

InitBasis ==
    /\ bphin \in BphinInputs
    /\ mml = Idle
    /\ bi = Idle
    /\ px = Idle
    /\ pr = Idle
    /\ rng = Unseeded
    /\ task = <<>>
    /\ tr = Idle

NextBasis == BphinCall \/ BphinLoop \/ BphinReturn

SpecBasis == InitBasis /\ [][NextBasis]_vars

(***************************************************************************)
(* Floating-point values.                                                  *)
(*                                                                         *)
(* An objective value is NaN, +inf or a finite number; the finite numbers  *)
(* of the model are the integers 0..MaxFun.                                *)
(***************************************************************************)
\* Largest finite objective value.
MaxFun == 1

NaN == [cls |-> "nan", v |-> 0]
Inf == [cls |-> "inf", v |-> 0]
Fin(v) == [cls |-> "fin", v |-> v]

FloatValues == {NaN, Inf} \cup {Fin(v) : v \in 0..MaxFun}

\* What a call ends in when it raises instead of returning a value.
Raise == [cls |-> "raise", v |-> 0]

\* a < b on Python floats: False as soon as one side is NaN.
Lt(a, b) ==
    /\ a.cls # "nan"
    /\ b.cls # "nan"
    /\ \/ a.cls = "fin" /\ b.cls = "inf"
       \/ a.cls = "fin" /\ b.cls = "fin" /\ a.v < b.v

\* A noise scale x (sig or gam, a numpy float64) is classed by what 1/x/x
\* evaluates to: "zero" (x is 0.0, or so small that 1/x/x overflows: the
\* quotient is inf, numpy warns and does not raise), "normal" (1/x/x is
\* finite and positive), "huge" (|x| is so large, or infinite, that 1/x/x
\* underflows to 0.0).
Scales == {"zero", "normal", "huge"}

\* 1/x/x of a noise scale: "inf", "fin" (finite, positive) or "zero".
Recip2(x) == CASE x = "zero" -> "inf"
               [] x = "normal" -> "fin"
               [] x = "huge" -> "zero"

\* -np.pi <= phi <= 0, phi in quarter turns.
Feasible(phi) == (-2 <= phi) /\ (phi <= 0)

(***************************************************************************)
(* _mmlenn(pp, w, tt, AA, a1, a2, y, n, M, h, m0, sigi, aa)                *)
(*                                                                         *)
(* AA, a1, a2, y, m0 are finite.  The inputs the model cannot compute are  *)
(* drawn with the call: eigpos, whether every eigenvalue of Sig is         *)
(* positive, and val, the value of the expression of line 136 when it is   *)
(* finite.                                                                 *)
(***************************************************************************)
\* Line 119, C0 = np.linalg.inv(P0): numpy raises LinAlgError("Singular
\* matrix") when LAPACK meets an exactly zero pivot, which a diagonal P0 has
\* when 1/sig/sig is 0.0.  An infinite diagonal entry is no zero pivot.
InvRaises(prec) == prec = "zero"

\* Whether every entry of P0 + CC.T @ GAI @ CC (line 130) is finite: P0 holds
\* 1/sig/sig, and GAI = 1/gam/gam*np.eye(N) holds inf (and inf*0 = nan) when
\* 1/gam/gam is inf.
NormalMatrixFinite(sig, gam) == Recip2(sig) # "inf" /\ Recip2(gam) # "inf"

\* Line 130, np.linalg.lstsq: the class of Sig, or "raise".  On a matrix with
\* inf or nan entries LAPACK's gelsd either reports that the SVD did not
\* converge (numpy raises LinAlgError) or returns nan, depending on the build.
LstsqOutcomes(finite) == IF finite THEN {"fin"} ELSE {"raise", "nan"}

\* Lines 133-139: the value of out.  In the feasible branch: nan when Sig is
\* nan or has a non-positive eigenvalue (np.log) or when gam is 0.0
\* (log(0) = -inf plus an inf term); +inf when gam**2 overflows
\* (log(inf), the GAI terms being 0); val otherwise.
MmlOut(pp, Sig, eigpos, val) ==
    IF Feasible(pp.phi)
    THEN IF Sig = "nan" \/ ~eigpos \/ pp.gam = "zero" THEN NaN
         ELSE IF pp.gam = "huge" THEN Inf
         ELSE Fin(val)
    ELSE Inf

\* Lines 114-119: phi, sig, gam, N, P0, C0.
MmlPrior ==
    /\ mml.pc = "call"
    /\ mml' = [mml EXCEPT
                  !.P0 = Recip2(mml.pp.sig),
                  !.pc = IF InvRaises(Recip2(mml.pp.sig))
                         THEN "raised" ELSE "posterior",
                  !.exc = IF InvRaises(Recip2(mml.pp.sig))
                          THEN "LinAlgError" ELSE "none"]
    /\ UNCHANGED <<bphin, bi, px, pr, rng, task, tr>>

\* Lines 120-131: GAI, B, BB, CC1, CC, then Sig by lstsq and m_phi.
MmlPosterior ==
    /\ mml.pc = "posterior"
    /\ \E s \in LstsqOutcomes(NormalMatrixFinite(mml.pp.sig, mml.pp.gam)) :
          mml' = [mml EXCEPT
                     !.GAI = Recip2(mml.pp.gam),
                     !.Sig = s,
                     !.pc = IF s = "raise" THEN "raised" ELSE "branch",
                     !.exc = IF s = "raise" THEN "LinAlgError" ELSE "none"]
    /\ UNCHANGED <<bphin, bi, px, pr, rng, task, tr>>

\* Lines 133-145: the feasibility branch and the return of out.
MmlBranch ==
    /\ mml.pc = "branch"
    /\ mml' = [mml EXCEPT
                  !.out = MmlOut(mml.pp, mml.Sig, mml.eigpos, mml.val),
                  !.pc = "returned"]
    /\ UNCHANGED <<bphin, bi, px, pr, rng, task, tr>>

\* The candidate triples pp = (sig, gam, phi): phi from below -pi (-3) to
\* above 0 (1).
Points == [sig : Scales, gam : Scales, phi : -3..1]

\* Everything a call _mmlenn(pp, ...) can end in: Raise or the value
\* returned (the composition of the three steps above).
MmlOutcomes(pp, eigpos, val) ==
    IF InvRaises(Recip2(pp.sig)) THEN {Raise}
    ELSE { IF s = "raise" THEN Raise ELSE MmlOut(pp, s, eigpos, val) :
              s \in LstsqOutcomes(NormalMatrixFinite(pp.sig, pp.gam)) }

MmlInputs ==
    { [pc |-> "call", pp |-> pp, eigpos |-> e, val |-> v,
       P0 |-> "none", GAI |-> "none", Sig |-> "none", out |-> NaN,
       exc |-> "none"] :
        pp \in Points, e \in BOOLEAN, v \in 0..MaxFun }

InitObjective ==
    /\ mml \in MmlInputs
    /\ bphin = Idle
    /\ bi = Idle
    /\ px = Idle
    /\ pr = Idle
    /\ rng = Unseeded
    /\ task = <<>>
    /\ tr = Idle

NextObjective == MmlPrior \/ MmlPosterior \/ MmlBranch

SpecObjective == InitObjective /\ [][NextObjective]_vars

(***************************************************************************)
(* Claims about _mmlenn.                                                   *)
(***************************************************************************)
\* C1: for every candidate pp = (sigma, gamma, phi) with phi > 0 or
\* phi < -pi, _mmlenn returns +infinity regardless of sigma and gamma
\* (including sigma = 0 or gamma = 0): the call completes and yields the
\* infeasible sentinel rather than raising or returning any other value.
C1_InfeasibleReturnsInf ==
    (mml.pc \in {"returned", "raised"} /\ ~Feasible(mml.pp.phi)) =>
        (mml.pc = "returned" /\ mml.out = Inf)

(***************************************************************************)
(* Claims about _B_phin.                                                   *)
(***************************************************************************)
\* C8: for every N >= 1 and n >= 0, _B_phin returns a matrix with 2N rows and
\* n+1 columns in which every even-indexed row (0-based) is entirely zero and
\* the odd-indexed row 2k+1 holds in column i the value sin(w*tt[k]+phi)^i,
\* for k = 0..N-1 and i = 0..n.
C8_BasisShape ==
    bphin.pc = "returned" =>
        LET N == Len(bphin.tt)
            n == bphin.n
            Bn == bphin.Bn
        IN  /\ DOMAIN Bn = 0..(2 * N - 1)
            /\ \A r \in DOMAIN Bn : DOMAIN Bn[r] = 0..n
            /\ \A k \in 0..(N - 1) : \A i \in 0..n :
                  /\ Bn[2 * k][i] = 0
                  /\ Bn[2 * k + 1][i] =
                        Pow(Sin(bphin.w * bphin.tt[k + 1] + bphin.phi), i)

\* A returned basis with N >= 2 samples, order n >= 2 and a sample whose sine
\* is -1, so that the powers in a row differ from column to column.
C8_Witness ==
    /\ bphin.pc = "returned"
    /\ Len(bphin.tt) >= 2
    /\ bphin.n >= 2
    /\ \E k \in 1..Len(bphin.tt) :
          Sin(bphin.w * bphin.tt[k] + bphin.phi) = -1

\* C9 as stated: the rows counted 1-indexed 1st, 3rd, ..., (2N-1)th hold
\* sin(w*t+phi)^i and the rows 2nd, 4th, ..., 2N-th are zero.  Row number m
\* counted from 1 is Bn[m - 1].
C9_OddRowsOneIndexedHoldBasis ==
    bphin.pc = "returned" =>
        \A m \in 1..(2 * Len(bphin.tt)) : \A i \in 0..bphin.n :
            IF m % 2 = 1
            THEN bphin.Bn[m - 1][i] =
                    Pow(Sin(bphin.w * bphin.tt[(m + 1) \div 2] + bphin.phi), i)
            ELSE bphin.Bn[m - 1][i] = 0

\* C9 amended: counted 1-indexed, it is the even rows (2nd, 4th, ..., 2N-th)
\* that hold sin(w*t+phi)^i, row 2j for sample j = 1..N, and the odd rows
\* (1st, 3rd, ..., (2N-1)th) that are zero; the matrix is (2N) x (n+1).
C9_EvenRowsOneIndexedHoldBasis ==
    bphin.pc = "returned" =>
        /\ Cardinality(DOMAIN bphin.Bn) = 2 * Len(bphin.tt)
        /\ \A m \in 1..(2 * Len(bphin.tt)) :
              /\ Cardinality(DOMAIN bphin.Bn[m - 1]) = bphin.n + 1
              /\ \A i \in 0..bphin.n :
                    IF m % 2 = 0
                    THEN bphin.Bn[m - 1][i] =
                            Pow(Sin(bphin.w * bphin.tt[m \div 2] + bphin.phi), i)
                    ELSE bphin.Bn[m - 1][i] = 0

\* A returned basis whose column 1 is not zero in some 1-indexed even row:
\* the rows that hold the basis are told apart from the zero rows.
C9_Witness ==
    /\ bphin.pc = "returned"
    /\ bphin.n >= 1
    /\ \E m \in 1..(2 * Len(bphin.tt)) : m % 2 = 0 /\ bphin.Bn[m - 1][1] # 0

(***************************************************************************)
(* Matrices of transition blocks.                                          *)
(*                                                                         *)
(* spla.expm(L*h*k) is kept symbolic: its entry in row r, column c is the  *)
(* triple <<k, r, c>>, k >= 1; the entry 0.0 is ZeroEntry.                 *)
(***************************************************************************)
ZeroEntry == <<0, 0, 0>>

Expm(k) == [r \in 0..1 |-> [c \in 0..1 |-> <<k, r, c>>]]

ZeroMatrix(rows, cols) ==
    [r \in 0..(rows - 1) |-> [c \in 0..(cols - 1) |-> ZeroEntry]]

NRows(M) == Cardinality(DOMAIN M)

NCols(M) == IF NRows(M) = 0 THEN 0 ELSE Cardinality(DOMAIN M[0])

\* M[r0:r0+rows(blk), c0:c0+cols(blk)] = blk
SetBlock(M, r0, c0, blk) ==
    [r \in DOMAIN M |-> [c \in DOMAIN M[r] |->
        IF /\ r0 <= r /\ r < r0 + NRows(blk)
           /\ c0 <= c /\ c < c0 + NCols(blk)
        THEN blk[r - r0][c - c0]
        ELSE M[r][c]]]

\* M[:, cols], cols a slice (a sequence of column indices).
Cols(M, cols) ==
    [r \in DOMAIN M |-> [j \in 0..(Len(cols) - 1) |-> M[r][cols[j + 1]]]]

\* M[:, cols] = V
SetCols(M, cols, V) ==
    [r \in DOMAIN M |-> [c \in DOMAIN M[r] |->
        IF SlicePos(cols, c) = 0 THEN M[r][c]
        ELSE V[r][SlicePos(cols, c) - 1]]]

\* np.fliplr(M)
Fliplr(M) ==
    [r \in DOMAIN M |-> [c \in DOMAIN M[r] |-> M[r][NCols(M) - 1 - c]]]

\* M[:, -k:] for 0 < k <= the number of columns.
LastCols(M, k) == Cols(M, Slice(NCols(M) - k, NCols(M), 1, NCols(M)))

\* M[:, start::2]
EveryOther(M, start) == Cols(M, Slice(start, NCols(M), 2, NCols(M)))

(***************************************************************************)
(* BayesianInference(R_H, wd, n0, p): the assembly, lines 163-191.         *)
(***************************************************************************)
\* Line 179, iteration i: A[:, 2*i:2*(i+1)] = spla.expm(L*h*(i+1)).
ExpmStep(A, i) == SetBlock(A, 0, 2 * i, Expm(i + 1))

\* Lines 181-185: a1, a2 reversed and interleaved again into A1.
ReversedBlocks(A) ==
    SetCols(SetCols(ZeroMatrix(NRows(A), NCols(A)),
                    Slice(0, NCols(A), 2, NCols(A)),
                    Fliplr(EveryOther(A, 0))),
            Slice(1, NCols(A), 2, NCols(A)),
            Fliplr(EveryOther(A, 1)))

\* Line 188, iteration j: AA[2*j:2*(j+1), :2*j] = A1[:, -2*j:].
\* (Variant: the columns shifted by one block, 2:2*j+2.)
ToeplitzStepWithDiagonal(AA, A1, j) == SetBlock(AA, 2 * j, 2, LastCols(A1, 2 * j))

ToeplitzStep(AA, A1, j) == SetBlock(AA, 2 * j, 0, LastCols(A1, 2 * j))

\* No start point is waiting to be handed to the minimizer.
NoStart == [sig |-> -1, gam |-> -1, phi |-> 1]

\* The frame of a call that has not run yet; N = int(R_H.size/fac).
BICall(N) ==
    [pc |-> "start", N |-> N, A |-> <<>>, A1 |-> <<>>, AA |-> <<>>,
     a1 |-> <<>>, a2 |-> <<>>, y |-> "unset", m0 |-> "unset", i |-> 0, j |-> 0,
     nexpm |-> 0, pp0 |-> <<>>, fvalg |-> NaN, pp1g |-> <<>>, pp1 |-> <<>>,
     nruns |-> 0, funs |-> {}, exc |-> "none",
     x0 |-> NoStart]

\* Lines 155-176: y, A, AA, h, tt.  h = T/N raises ZeroDivisionError when
\* the window is shorter than fac samples (N = 0).
BIStart ==
    /\ bi.pc = "start"
    /\ bi' = IF bi.N = 0
             THEN [bi EXCEPT !.pc = "raised", !.exc = "ZeroDivisionError",
                             !.y = "y", !.A = ZeroMatrix(2, 0),
                             !.AA = ZeroMatrix(0, 0)]
             ELSE [bi EXCEPT !.pc = "expm", !.y = "y", !.i = 0,
                             !.A = ZeroMatrix(2, 2 * bi.N),
                             !.AA = ZeroMatrix(2 * bi.N, 2 * bi.N)]
    /\ UNCHANGED <<bphin, mml, px, pr, rng, task, tr>>

\* Lines 178-179: for i in range(N): one matrix exponential per iteration.
BIExpm ==
    /\ bi.pc = "expm"
    /\ bi.i < bi.N
    /\ bi' = [bi EXCEPT !.A = ExpmStep(bi.A, bi.i),
                        !.nexpm = bi.nexpm + 1,
                        !.i = bi.i + 1]
    /\ UNCHANGED <<bphin, mml, px, pr, rng, task, tr>>

\* Lines 181-185, once the loop is over.
BIReverse ==
    /\ bi.pc = "expm"
    /\ bi.i >= bi.N
    /\ bi' = [bi EXCEPT !.a1 = Fliplr(EveryOther(bi.A, 0)),
                        !.a2 = Fliplr(EveryOther(bi.A, 1)),
                        !.A1 = ReversedBlocks(bi.A),
                        !.j = 1,
                        !.pc = "toeplitz"]
    /\ UNCHANGED <<bphin, mml, px, pr, rng, task, tr>>

\* Lines 187-188: for j in range(1, N).
BIToeplitz ==
    /\ bi.pc = "toeplitz"
    /\ bi.j < bi.N
    /\ bi' = [bi EXCEPT !.AA = ToeplitzStep(bi.AA, bi.A1, bi.j),
                        !.j = bi.j + 1]
    /\ UNCHANGED <<bphin, mml, px, pr, rng, task, tr>>

\* Lines 190-231: a1, a2 taken again from A, unreversed; the fixed
\* hyperparameters; m0, which reads y[1] and raises IndexError when N = 1;
\* the posterior at the fixed hyperparameters (all finite: sig = 1,
\* gam = 0.1).
BIPrior ==
    /\ bi.pc = "toeplitz"
    /\ bi.j >= bi.N
    /\ bi' = IF bi.N < 2
             THEN [bi EXCEPT !.a1 = EveryOther(bi.A, 0),
                             !.a2 = EveryOther(bi.A, 1),
                             !.pc = "raised", !.exc = "IndexError"]
             ELSE [bi EXCEPT !.a1 = EveryOther(bi.A, 0),
                             !.a2 = EveryOther(bi.A, 1),
                             !.m0 = "m0",
                             !.pc = "seed"]
    /\ UNCHANGED <<bphin, mml, px, pr, rng, task, tr>>

(***************************************************************************)
(* np.random: the calls BayesianInference makes on the global generator.   *)
(* A value drawn is named by the seed and the position it was drawn at.    *)
(***************************************************************************)
\* np.random.seed(sd)
Seed(sd) == [seed |-> sd, pos |-> 0]

\* The generator after k more values were drawn.
Advance(r, k) == [seed |-> r.seed, pos |-> r.pos + k]

\* The k-th value (k = 0, 1, ...) the next call draws.
Drawn(r, k) == <<r.seed, r.pos + k>>

\* Lines 240-241 and 262-263: pp0[:2] = np.random.randn(1, 2)**2 (two normal
\* values, squared) and pp0[2] = -np.pi*np.random.rand() (one uniform value).
StartPoint(r) == [sig |-> Drawn(r, 0), gam |-> Drawn(r, 1), phi |-> Drawn(r, 2)]

\* The values the draws take.  Which values a seed gives is the generator's
\* business: a normal value is any of the whole numbers up to MaxRandn either
\* side of zero, a uniform value of [0, 1) any multiple of 1/2 below 1, held
\* as a count of halves.
MaxRandn == 1

RandnValues == -MaxRandn..MaxRandn

RandValues == {0, 1}

\* The start point of lines 240-241 and 262-263 when randn(1, 2) gave a, b
\* and rand() gave u halves: the normal values squared, and -np.pi*rand() in
\* quarter turns (np.pi is two of them, so pi * u/2 is u).
\* (Variant: the normal values not squared.)
StartValueUnsquared(a, b, u) == [sig |-> a, gam |-> b, phi |-> -u]

StartValue(a, b, u) == [sig |-> a * a, gam |-> b * b, phi |-> -u]

\* The start points the three draws can give.
StartValues ==
    { StartValue(a, b, u) : a \in RandnValues, b \in RandnValues, u \in RandValues }

(***************************************************************************)
(* BayesianInference: the hyperparameter optimizer, lines 235-302.         *)
(*                                                                         *)
(* spo.minimize is not code of the repository: a run evaluates _mmlenn at  *)
(* points of its choosing and either lets an exception of _mmlenn through  *)
(* or returns a point x and fun, the value of _mmlenn at x.                *)
(***************************************************************************)
\* sd = 1, line 236.
sd == 1
\* range(10), line 261.
NRestarts == 10

\* What a minimizer run can end in: Raise, or a result [x, fun] with fun a
\* value _mmlenn returns at x.
MinimizeOutcomes ==
    UNION { { IF fun = Raise THEN Raise ELSE [x |-> x, fun |-> fun] :
                 fun \in MmlOutcomes(x, eigpos, val) } :
            x \in Points, eigpos \in BOOLEAN, val \in 0..MaxFun }

\* Lines 275-277: the result of a restart replaces the best so far when its
\* objective value is lower.
\* (Variant: the test written as not (fvalg < optResult.fun).)
KeepNotWorse(f, res) ==
    IF ~Lt(f.fvalg, res.fun)
    THEN [f EXCEPT !.pp1g = res.x, !.fvalg = res.fun]
    ELSE f

Keep(f, res) ==
    IF Lt(res.fun, f.fvalg)
    THEN [f EXCEPT !.pp1g = res.x, !.fvalg = res.fun]
    ELSE f

\* The frame holds the start point twice: pp0 names the draws it was made
\* of; x0 holds their values from the draw until they are handed to the
\* minimizer (NoStart before and after: the values are not read again).
\* What a minimizer run leaves in the frame besides its result: the count of
\* runs and the set of objective values the runs reported (both kept for the
\* claims; the code has neither).  The objective reads AA, a1, a2, y, m0 and
\* writes none of them: np.matmul(AA, B)*h, a1.reshape(...) and CC1[::2, :]
\* build new arrays.
\* (Variant: an objective that writes into AA in place.)
MinimizedScalingAA(f, res) ==
    [f EXCEPT !.nruns = f.nruns + 1, !.funs = f.funs \cup {res.fun},
              !.AA = SetBlock(f.AA, 0, 0, Expm(1))]

Minimized(f, res) ==
    [f EXCEPT !.nruns = f.nruns + 1, !.funs = f.funs \cup {res.fun}]

\* Lines 236-241: the generator is seeded and the first start point drawn.
BISeed ==
    /\ bi.pc = "seed"
    /\ \E x0 \in StartValues :
          bi' = [bi EXCEPT !.pp0 = StartPoint(Seed(sd)), !.x0 = x0,
                           !.pc = "run0"]
    /\ rng' = Advance(Seed(sd), 3)
    /\ UNCHANGED <<bphin, mml, px, pr, task, tr>>

\* Lines 251-259: the seeded run, started from pp0; fvalg and pp1g start
\* from its result.
BIFirstRun ==
    /\ bi.pc = "run0"
    /\ \E optResult \in MinimizeOutcomes :
          bi' = IF optResult = Raise
                THEN [bi EXCEPT !.x0 = NoStart,
                                !.pc = "raised", !.exc = "LinAlgError"]
                ELSE [Minimized(bi, optResult) EXCEPT
                         !.fvalg = optResult.fun, !.pp1g = optResult.x,
                         !.x0 = NoStart, !.i = 0, !.pc = "restart"]
    /\ UNCHANGED <<bphin, mml, px, pr, rng, task, tr>>

\* Lines 261-263, one iteration of for i in range(10): a start point is
\* drawn.
BIDraw ==
    /\ bi.pc = "restart"
    /\ bi.i < NRestarts
    /\ \E x0 \in StartValues :
          bi' = [bi EXCEPT !.pp0 = StartPoint(rng), !.x0 = x0, !.pc = "drawn"]
    /\ rng' = Advance(rng, 3)
    /\ UNCHANGED <<bphin, mml, px, pr, task, tr>>

\* Line 270: spo.minimize is called with pp0.
BIMinimize ==
    /\ bi.pc = "drawn"
    /\ bi' = [bi EXCEPT !.x0 = NoStart, !.pc = "run"]
    /\ UNCHANGED <<bphin, mml, px, pr, rng, task, tr>>

\* Lines 270-277: the minimizer run ends, and its result is kept when it is
\* lower; back to the head of the loop.
BIRestart ==
    /\ bi.pc = "run"
    /\ \E optResult \in MinimizeOutcomes :
          bi' = IF optResult = Raise
                THEN [bi EXCEPT !.pc = "raised", !.exc = "LinAlgError"]
                ELSE [Keep(Minimized(bi, optResult), optResult) EXCEPT
                         !.i = bi.i + 1, !.pc = "restart"]
    /\ UNCHANGED <<bphin, mml, px, pr, rng, task, tr>>

\* Lines 279-302: pp1 = pp1g and the posterior at pp1: P0 and C0 = inv(P0)
\* (line 293), Sig by lstsq (line 297), then the return.
BIRecompute ==
    /\ bi.pc = "restart"
    /\ bi.i >= NRestarts
    /\ \E s \in LstsqOutcomes(NormalMatrixFinite(bi.pp1g.sig, bi.pp1g.gam)) :
          bi' = IF InvRaises(Recip2(bi.pp1g.sig)) \/ s = "raise"
                THEN [bi EXCEPT !.pp1 = bi.pp1g, !.pc = "raised",
                                !.exc = "LinAlgError"]
                ELSE [bi EXCEPT !.pp1 = bi.pp1g, !.pc = "returned"]
    /\ UNCHANGED <<bphin, mml, px, pr, rng, task, tr>>

(***************************************************************************)
(* Names.  A statement reads names and binds names; a name that is neither *)
(* a local of the frame, a global of the module nor a builtin raises       *)
(* NameError when it is read.                                              *)
(***************************************************************************)
\* The names bound at module level: the imports (lines 10-14) and the defs.
ModuleGlobals ==
    {"plt", "spo", "spla", "np", "time", "process_pixel",
     "get_default_parameters", "_B_phin", "_mmlenn", "BayesianInference",
     "processResults"}

Builtins == {"int", "float", "range", "sum"}

Bound(locals) == locals \cup ModuleGlobals \cup Builtins

\* process_pixel's parameters, line 16.
PixelParams == {"R_H", "wd", "n0", "p", "graph", "verbose"}

\* The names line 18 binds to what BayesianInference returns.
PixelUnpacked ==
    {"y", "tt", "pp1", "sig", "gam", "AA", "B", "BB", "CC", "C0", "P0", "CC1",
     "GAI", "M", "m0", "phi", "m_phi", "Sig"}

\* The names line 21 reads.
PixelLine21Reads ==
    {"processResults", "p", "R_H", "wd", "Rforce", "M", "Sig", "B", "m_phi",
     "y", "CC", "graph", "verbose"}

\* processResults' parameters, line 305.
ResultsParams ==
    {"p", "R_H", "wd", "Rforce", "M", "Sig", "B", "m_phi", "y", "CC", "graph",
     "verbose"}

\* Lines 306-329.
ResultsSetup ==
    [reads |-> {"p", "R_H", "wd", "np", "int", "Rforce"},
     binds |-> {"t_max", "fac", "wr1", "Vac", "phi", "n0", "N1", "OmV", "Om0",
                "w", "T", "Tsec", "h", "tt", "h1", "tt1", "w_ang", "R",
                "R_seg"}]

\* Lines 331-391, under if graph.
ResultsPlots ==
    [reads |-> {"plt", "np", "Sig", "M", "Vac", "w", "tt", "phi", "w_ang",
                "tt1", "B", "m_phi", "R_seg", "verbose", "y", "CC"},
     binds |-> {"mplot3d", "threeDboi", "ax", "sqrtBoi2", "bigFig", "sqrtBoi"}]

\* Lines 394-403.
ResultsFit ==
    [reads |-> {"np", "y", "CC", "m_phi", "Vac", "w_ang", "tt1", "phi", "B",
                "M", "sum"},
     binds |-> {"rrmse", "x1", "y1", "p1", "yfit", "yresid", "SSresid",
                "SStotal", "rsq"}]

\* Lines 405-416, under if graph: the return of the two figures.
ResultsFigures ==
    [reads |-> {"plt", "x1", "y1", "yfit", "bigFig", "verbose", "threeDboi"},
     binds |-> {},
     ret |-> <<"threeDboi", "bigFig">>]

\* Line 419: the names the returned tuple is built from, and the tuple.
ResultsReturn ==
    [reads |-> {"phi", "p", "rrmse", "np", "B", "m_phi", "M", "R_seg", "y",
                "CC", "p1", "S", "rsq"},
     binds |-> {},
     ret |-> <<"phi", "snr", "rrmse", "force", "R_seg", "resid", "p1", "S",
               "rsq">>]

\* A frame after a statement: its names bound, or NameError.
Exec(f, stmt, next) ==
    IF stmt.reads \subseteq Bound(f.locals)
    THEN [f EXCEPT !.locals = f.locals \cup stmt.binds, !.pc = next]
    ELSE [f EXCEPT !.pc = "raised", !.exc = "NameError"]

\* A frame after a return statement.
ExecReturn(f, stmt) ==
    IF stmt.reads \subseteq Bound(f.locals)
    THEN [f EXCEPT !.ret = stmt.ret, !.pc = "returned"]
    ELSE [f EXCEPT !.pc = "raised", !.exc = "NameError"]

\* The frame of a call of processResults whose arguments were all given.
ResultsCall(graph) ==
    [pc |-> "setup", graph |-> graph, locals |-> ResultsParams,
     exc |-> "none", ret |-> <<>>]

(***************************************************************************)
(* processResults(p, R_H, wd, Rforce, M, Sig, B, m_phi, y, CC, graph,      *)
(*                verbose)                                                 *)
(***************************************************************************)
\* Line 21 of process_pixel, return processResults(...): the caller's frame
\* once the callee's frame is f.  What processResults returns or raises,
\* process_pixel returns or raises; a caller that is not process_pixel
\* (its frame is idle) is not modelled.
Caller(c, f) ==
    IF c.pc # "results" THEN c
    ELSE IF f.pc = "returned" THEN [c EXCEPT !.ret = f.ret, !.pc = "returned"]
    ELSE IF f.pc = "raised" THEN [c EXCEPT !.exc = f.exc, !.pc = "raised"]
    ELSE c

PRSetup ==
    /\ pr.pc = "setup"
    /\ pr' = Exec(pr, ResultsSetup, IF pr.graph THEN "plots" ELSE "fit")
    /\ px' = Caller(px, pr')
    /\ UNCHANGED <<bphin, mml, bi, rng, task, tr>>

PRPlots ==
    /\ pr.pc = "plots"
    /\ pr' = Exec(pr, ResultsPlots, "fit")
    /\ px' = Caller(px, pr')
    /\ UNCHANGED <<bphin, mml, bi, rng, task, tr>>

PRFit ==
    /\ pr.pc = "fit"
    /\ pr' = Exec(pr, ResultsFit, "return")
    /\ px' = Caller(px, pr')
    /\ UNCHANGED <<bphin, mml, bi, rng, task, tr>>

PRReturn ==
    /\ pr.pc = "return"
    /\ pr' = ExecReturn(pr, IF pr.graph THEN ResultsFigures ELSE ResultsReturn)
    /\ px' = Caller(px, pr')
    /\ UNCHANGED <<bphin, mml, bi, rng, task, tr>>

(***************************************************************************)
(* process_pixel(R_H, wd, n0, p, graph=False, verbose=False)               *)
(***************************************************************************)
\* Line 18, the call: BayesianInference(R_H, wd, n0, p).
PixelCallInference ==
    /\ px.pc = "call"
    /\ bi.pc = "idle"
    /\ px' = [px EXCEPT !.pc = "inference"]
    /\ bi' = BICall(px.N)
    /\ UNCHANGED <<bphin, mml, pr, rng, task, tr>>

\* Line 18, the assignment of the 18 values returned.
PixelUnpack ==
    /\ px.pc = "inference"
    /\ bi.pc = "returned"
    /\ px' = [px EXCEPT !.locals = px.locals \cup PixelUnpacked,
                        !.pc = "line21"]
    /\ UNCHANGED <<bphin, mml, bi, pr, rng, task, tr>>

\* Line 18, when BayesianInference raises: the exception passes through.
PixelPropagate ==
    /\ px.pc = "inference"
    /\ bi.pc = "raised"
    /\ px' = [px EXCEPT !.pc = "raised", !.exc = bi.exc]
    /\ UNCHANGED <<bphin, mml, bi, pr, rng, task, tr>>

\* Line 21: the arguments of processResults are evaluated, then the call
\* (the return of its result is in the actions of processResults).
PixelCallResults ==
    /\ px.pc = "line21"
    /\ IF PixelLine21Reads \subseteq Bound(px.locals)
       THEN /\ px' = [px EXCEPT !.pc = "results"]
            /\ pr' = ResultsCall(px.graph)
       ELSE /\ px' = [px EXCEPT !.pc = "raised", !.exc = "NameError"]
            /\ pr' = pr
    /\ UNCHANGED <<bphin, mml, bi, rng, task, tr>>

\* A call of process_pixel on a window of N*fac samples.
PixelCall(N, graph) ==
    [pc |-> "call", N |-> N, graph |-> graph, locals |-> PixelParams,
     exc |-> "none", ret |-> <<>>]

(***************************************************************************)
(* The program: a call of process_pixel, or a call of processResults by a  *)
(* caller that has all of its arguments.                                   *)
(***************************************************************************)
Init ==
    /\ bphin = Idle
    /\ mml = Idle
    /\ bi = Idle
    /\ rng = Unseeded
    /\ task = <<>>
    /\ tr = Idle
    /\ \/ /\ px \in {PixelCall(N, g) : N \in 0..MaxN, g \in BOOLEAN}
          /\ pr = Idle
       \/ /\ px = Idle
          /\ pr \in {ResultsCall(g) : g \in BOOLEAN}

Next ==
    \/ PixelCallInference
    \/ BIStart
    \/ BIExpm
    \/ BIReverse
    \/ BIToeplitz
    \/ BIPrior
    \/ BISeed
    \/ BIFirstRun
    \/ BIDraw
    \/ BIMinimize
    \/ BIRestart
    \/ BIRecompute
    \/ PixelUnpack
    \/ PixelPropagate
    \/ PixelCallResults
    \/ PRSetup
    \/ PRPlots
    \/ PRFit
    \/ PRReturn

Spec == Init /\ [][Next]_vars

(***************************************************************************)
(* Claims about BayesianInference and process_pixel.                       *)
(***************************************************************************)
\* The restart loop is over: the seeded run and the ten restarts were made.
LoopFinished == bi.pc \in {"restart", "returned", "raised"} /\ bi.nruns = NRestarts + 1

\* a is a strictly lower objective value than b: a finite a is lower than a
\* greater finite b and than +inf (as Lt has it), and also than NaN, which
\* is no objective value; +inf and NaN are lower than nothing.
Lower(a, b) == a.cls = "fin" /\ (b.cls = "nan" \/ Lt(a, b))

\* C2: when the restart loop finishes, the triple kept is the result of the
\* run with the lowest objective value among all eleven runs: no run
\* reported an objective value strictly lower than the one belonging to
\* pp1g, whatever values (finite, +infinity or NaN) the runs reported.
C2_KeepsLowestRun ==
    LoopFinished => \A v \in bi.funs : ~Lower(v, bi.fvalg)

\* C3: across the restarts fvalg is non-increasing: after each restart
\* iteration it is its value before or a lower one, and pp1g is changed only
\* in a step in which fvalg strictly decreases.
C3_BestNonIncreasing ==
    [][bi.pc \in {"restart", "drawn", "run"} =>
          /\ bi'.fvalg = bi.fvalg \/ Lt(bi'.fvalg, bi.fvalg)
          /\ bi'.pp1g # bi.pp1g => Lt(bi'.fvalg, bi.fvalg)]_vars

\* Restarts were made, the runs reported more than one value, and the value
\* kept is lower than another one reported.
C3_Witness ==
    /\ bi.pc = "restart"
    /\ bi.i >= 2
    /\ bi.pp0 = StartPoint(Advance(Seed(sd), 3 * bi.i))
    /\ \E v \in bi.funs : Lt(bi.fvalg, v)

\* C4: a candidate whose objective is +infinity is never the selected
\* result; if every one of the eleven runs returns +infinity the call does
\* not return the infeasible point as pp1 with a posterior recomputed at it.
C4_InfeasibleNeverSelected ==
    bi.pc = "returned" => (bi.fvalg # Inf /\ bi.funs # {Inf})

\* C5: process_pixel with graph=False, once BayesianInference has returned,
\* runs processResults to completion and returns the 8-element tuple; the
\* call never ends in an unbound-name error.
C5_ProcessPixelReturnsTuple ==
    (px.pc \in {"returned", "raised"} /\ bi.pc = "returned" /\ ~px.graph) =>
        (px.pc = "returned" /\ Len(px.ret) = 8)

\* C7: AA, a1, a2 are computed once, before the first minimizer run, with
\* exactly N matrix exponentials: from the seeding of the generator on, no
\* minimizer run, no restart iteration and not the final recomputation
\* writes AA, a1, a2, y or m0 or evaluates another matrix exponential.
C7_AssemblyOnce ==
    [][bi.pc \in {"seed", "run0", "restart", "drawn", "run"} =>
          /\ bi.nexpm = bi.N
          /\ bi'.nexpm = bi.nexpm
          /\ bi'.AA = bi.AA
          /\ bi'.a1 = bi.a1
          /\ bi'.a2 = bi.a2
          /\ bi'.y = bi.y
          /\ bi'.m0 = bi.m0]_vars

\* A call that returned after all eleven runs on a window of N >= 2 samples,
\* with a transition block in AA.
C7_Witness ==
    /\ bi.pc = "returned"
    /\ bi.nruns = NRestarts + 1
    /\ bi.N >= 2
    /\ bi.nexpm = bi.N
    /\ bi.AA[2][0] = <<1, 0, 0>>
    /\ bi.a1[0][0] = <<1, 0, 0>>

\* The assembly loops of lines 178-191 are over.
Assembled ==
    \/ bi.pc \in {"seed", "run0", "restart", "drawn", "run", "returned"}
    \/ bi.pc = "raised" /\ bi.exc \in {"IndexError", "LinAlgError"}

\* C10: after the assembly loops AA, as an N x N grid of 2x2 blocks, is
\* strictly lower-triangular block-Toeplitz: for 0 <= k < j <= N-1 block
\* (j,k) is the (j-k)-step transition block exp(L*h*(j-k)), and every block
\* (j,k) with k >= j is the zero block.
C10_BlockToeplitz ==
    Assembled =>
        /\ DOMAIN bi.AA = 0..(2 * bi.N - 1)
        /\ \A j \in 0..(bi.N - 1) : \A k \in 0..(bi.N - 1) :
              \A r \in 0..1 : \A c \in 0..1 :
                 /\ DOMAIN bi.AA[2 * j + r] = 0..(2 * bi.N - 1)
                 /\ bi.AA[2 * j + r][2 * k + c] =
                       IF k < j THEN Expm(j - k)[r][c] ELSE ZeroEntry

\* An assembled AA of at least 3 x 3 blocks: it has blocks of one and of two
\* steps below the diagonal.
C10_Witness ==
    /\ Assembled
    /\ bi.N >= 3
    /\ bi.AA[4][0] = <<2, 0, 0>>
    /\ bi.AA[4][2] = <<1, 0, 0>>

(***************************************************************************)
(* BayesianInference calls run as parallel tasks of one process.           *)
(*                                                                         *)
(* A task's frame holds what the calls on np.random touch: pp0 and the     *)
(* count k of minimizer runs started.  The rest of a call works on its own *)
(* locals.  Each call on np.random is atomic (the generator's lock) and    *)
(* the tasks are interleaved between the calls.                            *)
(***************************************************************************)
\* The number of tasks.
NTasks == 2

\* pp0 = np.zeros(3), line 239: no value drawn yet.
NoDraw == <<0, -1>>

TaskCall == [pc |-> "seed", pp0 |-> <<>>, k |-> 0]

\* Lines 237-239: np.random.seed(sd); pp0 = np.zeros(3).
TaskSeed(t) ==
    /\ task[t].pc = "seed"
    /\ rng' = Seed(sd)
    /\ task' = [task EXCEPT ![t].pc = "randn",
                   ![t].pp0 = [sig |-> NoDraw, gam |-> NoDraw, phi |-> NoDraw]]
    /\ UNCHANGED <<bphin, mml, bi, px, pr, tr>>

\* Lines 240 and 262: pp0[:2] = np.random.randn(1, 2)**2.
TaskRandn(t) ==
    /\ task[t].pc = "randn"
    /\ rng' = Advance(rng, 2)
    /\ task' = [task EXCEPT ![t].pc = "rand",
                            ![t].pp0.sig = Drawn(rng, 0),
                            ![t].pp0.gam = Drawn(rng, 1)]
    /\ UNCHANGED <<bphin, mml, bi, px, pr, tr>>

\* Lines 241 and 263: pp0[2] = -np.pi*np.random.rand().
TaskRand(t) ==
    /\ task[t].pc = "rand"
    /\ rng' = Advance(rng, 1)
    /\ task' = [task EXCEPT ![t].pc = "run", ![t].pp0.phi = Drawn(rng, 0)]
    /\ UNCHANGED <<bphin, mml, bi, px, pr, tr>>

\* Lines 251 and 270: the minimizer run started at pp0; after the eleventh
\* the loop is over.
TaskRun(t) ==
    /\ task[t].pc = "run"
    /\ task' = [task EXCEPT ![t].k = task[t].k + 1,
                   ![t].pc = IF task[t].k < NRestarts THEN "randn" ELSE "done"]
    /\ UNCHANGED <<bphin, mml, bi, px, pr, rng, tr>>

InitParallel ==
    /\ bphin = Idle
    /\ mml = Idle
    /\ bi = Idle
    /\ px = Idle
    /\ pr = Idle
    /\ rng = Unseeded
    /\ task = [t \in 1..NTasks |-> TaskCall]
    /\ tr = Idle

NextParallel ==
    \E t \in 1..NTasks : TaskSeed(t) \/ TaskRandn(t) \/ TaskRand(t) \/ TaskRun(t)

SpecParallel == InitParallel /\ [][NextParallel]_vars

\* C6: BayesianInference runs interleaved as parallel tasks share no mutable
\* state, so in every interleaving each run starts its minimizer runs from
\* the points it starts them from when it runs alone: for its k-th run
\* (k = 0 the seeded one) the three values drawn at positions 3k, 3k+1, 3k+2
\* after seeding with sd.
C6_StartsAsWhenAlone ==
    \A t \in 1..NTasks :
        task[t].pc = "run" =>
            task[t].pp0 = StartPoint(Advance(Seed(sd), 3 * task[t].k))

\* A start point is about to be handed to the minimizer: the seeded one
\* (line 251) or that of a restart (line 270).
HandingOver == bi.pc \in {"run0", "drawn"}

\* C12: every start point handed to the minimizer, for the seeded first run
\* and for each of the ten restarts, is feasible (its phase lies in [-pi, 0])
\* and its two noise components are non-negative; the runs are started one
\* after another (a step starts at most one, and only after the one before
\* has ended), never more than eleven, and exactly eleven in a call that
\* comes to the end of the restart loop.
C12_StartsFeasibleElevenRuns ==
    /\ [](HandingOver =>
             /\ Feasible(bi.x0.phi)
             /\ bi.x0.sig >= 0
             /\ bi.x0.gam >= 0)
    /\ [](bi.pc # "idle" =>
             /\ bi.nruns <= NRestarts + 1
             /\ bi.pc = "run0" => bi.nruns = 0
             /\ bi.pc \in {"drawn", "run"} => bi.nruns = bi.i + 1
             /\ (bi.pc = "restart" /\ bi.i >= NRestarts) => bi.nruns = NRestarts + 1
             /\ bi.pc = "returned" => bi.nruns = NRestarts + 1)
    /\ [][bi.pc # "idle" =>
             /\ bi'.nruns \in {bi.nruns, bi.nruns + 1}
             /\ bi'.nruns = bi.nruns + 1 => bi.pc \in {"run0", "run"}
             /\ HandingOver => bi'.pc \in {"run", "restart", "raised"}]_vars

\* The start point of the last restart is about to be handed over, ten runs
\* have ended, and the point lies on the boundary: a noise component is zero
\* and the phase is zero.
C12_Witness ==
    /\ bi.pc = "drawn"
    /\ bi.i = NRestarts - 1
    /\ bi.nruns = NRestarts
    /\ bi.pp0 = StartPoint(Advance(Seed(sd), 3 * NRestarts))
    /\ bi.x0.sig = 0
    /\ bi.x0.gam > 0
    /\ bi.x0.phi = 0

(***************************************************************************)
(* Translator._buildpositiondatasets(dimensions, steps=None,               *)
(*     initial_values=None, labels=None, units=None)                       *)
(*                                                                         *)
(* An optional argument is a record: given is FALSE for None, val is the   *)
(* array otherwise.  The frame keeps the arguments of the call in args and *)
(* the locals steps, initial_values, labels the statements rebind.         *)
(***************************************************************************)
\* Largest number of dimensions, and largest length of an argument.
MaxDims == 2

None == [given |-> FALSE, val |-> <<>>]

Given(val) == [given |-> TRUE, val |-> val]

\* An array of n copies of x.
Filled(n, x) == [k \in 1..n |-> x]

\* np.zeros_like(dimensions), lines 95 and 100.
ZerosLike(dimensions) == Filled(Len(dimensions), 0)

\* Lines 94-97: steps.
StepsChecked(f) ==
    IF ~f.steps.given
    THEN [f EXCEPT !.steps = Given(ZerosLike(f.args.dimensions)),
                   !.pc = "initial_values"]
    ELSE IF Len(f.steps.val) # Len(f.args.dimensions)
    THEN [f EXCEPT !.pc = "raised", !.exc = "ValueError"]
    ELSE [f EXCEPT !.pc = "initial_values"]

\* Lines 99-102: initial_values.
InitialValuesChecked(f) ==
    IF ~f.initial_values.given
    THEN [f EXCEPT !.initial_values = Given(ZerosLike(f.args.dimensions)),
                   !.pc = "labels"]
    ELSE IF Len(f.initial_values.val) # Len(f.args.dimensions)
    THEN [f EXCEPT !.pc = "raised", !.exc = "ValueError"]
    ELSE [f EXCEPT !.pc = "labels"]

\* Lines 104-107: labels.  ['' for _ in len(dimensions)] iterates over an
\* int: TypeError ('int' object is not iterable).
LabelsChecked(f) ==
    IF ~f.labels.given
    THEN [f EXCEPT !.pc = "raised", !.exc = "TypeError"]
    ELSE IF Len(f.labels.val) # Len(f.args.dimensions)
    THEN [f EXCEPT !.pc = "raised", !.exc = "ValueError"]
    ELSE [f EXCEPT !.pc = "build"]

\* Lines 125-133: units, and the return of the two datasets; ret holds what
\* they were built from (units is None when no units attribute is set).
UnitsChecked(f) ==
    IF ~f.args.units.given
    THEN [f EXCEPT !.pc = "returned", !.ret.units = None]
    ELSE IF Len(f.args.units.val) # Len(f.args.dimensions)
    THEN [f EXCEPT !.pc = "raised", !.exc = "ValueError"]
    ELSE [f EXCEPT !.pc = "returned", !.ret.units = f.args.units]

TrSteps ==
    /\ tr.pc = "steps"
    /\ tr' = StepsChecked(tr)
    /\ UNCHANGED <<bphin, mml, bi, px, pr, rng, task>>

TrInitialValues ==
    /\ tr.pc = "initial_values"
    /\ tr' = InitialValuesChecked(tr)
    /\ UNCHANGED <<bphin, mml, bi, px, pr, rng, task>>

TrLabels ==
    /\ tr.pc = "labels"
    /\ tr' = LabelsChecked(tr)
    /\ UNCHANGED <<bphin, mml, bi, px, pr, rng, task>>

\* Lines 110-123: pos_inds, pos_vals = initial_values + float32(pos_inds)*steps,
\* pos_slices from labels, and the two MicroDatasets.  makePositionMat,
\* getPositionSlicing and MicroDataset are imported (lines 12-13) and are
\* taken to return.
TrBuild ==
    /\ tr.pc = "build"
    /\ tr' = [tr EXCEPT !.ret.steps = tr.steps.val,
                        !.ret.initial_values = tr.initial_values.val,
                        !.ret.labels = tr.labels.val,
                        !.pc = "units"]
    /\ UNCHANGED <<bphin, mml, bi, px, pr, rng, task>>

TrUnits ==
    /\ tr.pc = "units"
    /\ tr' = UnitsChecked(tr)
    /\ UNCHANGED <<bphin, mml, bi, px, pr, rng, task>>

\* The optional arrays of a call: None, or an array of 1..MaxDims values x.
Optional(x) == {None} \cup {Given(Filled(n, x)) : n \in 1..MaxDims}

\* The calls: dimensions of 1..MaxDims lengths (each 2), steps of 3.0,
\* initial values of 5.0, labels 'X', units 'nm'.
TrCalls ==
    { [pc |-> "steps",
       args |-> [dimensions |-> Filled(d, 2), steps |-> st,
                 initial_values |-> iv, labels |-> lb, units |-> un],
       steps |-> st, initial_values |-> iv, labels |-> lb,
       exc |-> "none",
       ret |-> [steps |-> <<>>, initial_values |-> <<>>, labels |-> <<>>,
                units |-> None]] :
        d \in 1..MaxDims, st \in Optional(3), iv \in Optional(5),
        lb \in Optional("X"), un \in Optional("nm") }

InitTranslator ==
    /\ bphin = Idle
    /\ mml = Idle
    /\ bi = Idle
    /\ px = Idle
    /\ pr = Idle
    /\ rng = Unseeded
    /\ task = <<>>
    /\ tr \in TrCalls

NextTranslator == TrSteps \/ TrInitialValues \/ TrLabels \/ TrBuild \/ TrUnits

SpecTranslator == InitTranslator /\ [][NextTranslator]_vars

\* The call is over.
TrOver == tr.pc \in {"returned", "raised"}

\* An argument that was specified with a length other than dimensions'.
TrMismatch(arg) == arg.given /\ Len(arg.val) # Len(tr.args.dimensions)

\* C11: called with dimensions only, _buildpositiondatasets returns the two
\* datasets without raising, built with a step size of one, an initial value
\* of zero and an empty-string label for every dimension; and when any of
\* steps, initial_values, labels or units is specified with a length
\* different from that of dimensions, the call raises ValueError.
C11_DefaultsAndLengthErrors ==
    TrOver =>
        /\ ( /\ ~tr.args.steps.given
             /\ ~tr.args.initial_values.given
             /\ ~tr.args.labels.given
             /\ ~tr.args.units.given )
           => /\ tr.pc = "returned"
              /\ tr.ret.steps = Filled(Len(tr.args.dimensions), 1)
              /\ tr.ret.initial_values = Filled(Len(tr.args.dimensions), 0)
              /\ tr.ret.labels = Filled(Len(tr.args.dimensions), "")
        /\ ( \/ TrMismatch(tr.args.steps)
             \/ TrMismatch(tr.args.initial_values)
             \/ TrMismatch(tr.args.labels)
             \/ TrMismatch(tr.args.units) )
           => (tr.pc = "raised" /\ tr.exc = "ValueError")

====
